---- MODULE Spec2Model ----
(***************************************************************************)
(* Model of multiqr's chunk estimator, estimate_chunk (src/main.rs), and   *)
(* of the caller-side slicing done in qr().                                *)
(*                                                                         *)
(* One call of estimate_chunk(content, desired_version) is one behaviour:  *)
(* Init draws the arguments, Validate is the two entry checks, each        *)
(* iteration of the `loop` is one ProbeEncoded or ProbeDataTooLong step,   *)
(* and Rebalance is the code after the loop.                               *)
(*                                                                         *)
(* The encode probe QrCode::new(&content[..total]) is the qr_code crate's  *)
(* automatic encoder at its default error-correction level M.  The content *)
(* is homogeneous (one character class for the whole buffer, as in the     *)
(* repository's test, which uses a buffer of 'x'), so the probe depends on *)
(* the prefix length only.                                                 *)
(***************************************************************************)
EXTENDS Integers, Sequences, FiniteSets

\* ------------------------------------------------------------------ bounds
\* Largest content length drawn by Init.
MaxLen == 2400
\* Largest desired_version drawn by Init (one past the largest valid one).
MaxVersionArg == 41
\* Saturation point of the probe counter (a ghost variable).
MaxProbes == 80

\* ------------------------------------------------------- program constants
\* Largest valid QR version: `desired_version > 40` is rejected.
MaxVersion == 40
\* Length of the test's buffer, the largest length it draws (u16::MAX).
U16Max == 65535

\* ------------------------------------------------------------- the probe
\* Data capacity in bits of Version::Normal(v) at error-correction level M.
DataLengths ==
  << 128, 224, 352, 512, 688, 864, 992, 1232, 1456, 1728,
     2032, 2320, 2672, 2920, 3320, 3624, 4056, 4504, 5016, 5352,
     5712, 6256, 6880, 7312, 8000, 8496, 9024, 9544, 10136, 10984,
     11640, 12328, 13048, 13800, 14496, 15312, 15936, 16816, 17728, 18672 >>

\* The encoder sizes the data for the version classes 1-9, 10-26 and 27-40.
VersionClasses == << 9, 26, 40 >>

\* Width of the character-count field of a byte-mode segment.
CharCountBits(cls) == IF cls <= 9 THEN 8 ELSE 16

\* Encoded length in bits of n bytes in one byte-mode segment: mode
\* indicator, character count, data.
EncodedLen(n, cls) == 4 + CharCountBits(cls) + 8 * n

\* Index of the first version class (from index i on) whose largest version
\* holds n bytes; 0 when none does.
RECURSIVE FirstClassFrom(_, _)
FirstClassFrom(n, i) ==
  IF i > Len(VersionClasses) THEN 0
  ELSE IF EncodedLen(n, VersionClasses[i]) <= DataLengths[VersionClasses[i]]
       THEN i
       ELSE FirstClassFrom(n, i + 1)

\* Smallest version (from v on) whose capacity holds `bits`.
RECURSIVE FindMinVersionFrom(_, _)
FindMinVersionFrom(bits, v) ==
  IF v >= MaxVersion \/ DataLengths[v] >= bits THEN v
  ELSE FindMinVersionFrom(bits, v + 1)

\* QrCode::new on a prefix of n bytes fails with QrError::DataTooLong.
ProbeTooLong(n) == FirstClassFrom(n, 1) = 0

\* The version of the code QrCode::new builds for a prefix of n bytes.
ProbeVersion(n) ==
  FindMinVersionFrom(EncodedLen(n, VersionClasses[FirstClassFrom(n, 1)]), 1)

\* --------------------------------------------------- estimate_chunk, parts
\* Mutant: the check for 0 is forgotten.
InvalidVersionAboveOnly(v) == v > MaxVersion

\* `desired_version == 0 || desired_version > 40`
InvalidVersion(v) == v = 0 \/ v > MaxVersion

\* `total / 2`
Halve(t) == t \div 2

\* Mutant: the undershoot step doubles, undoing a halving exactly.
GrowDouble(t) == t * 2

\* `(total * 3) / 2`
Grow(t) == (t * 3) \div 2

\* Mutant: the test that the whole buffer was probed is forgotten.
FitsBelowAnyTotal(width, desired, t, len) == width < desired

\* `width < desired_version && total >= content.len()`
FitsBelow(width, desired, t, len) == width < desired /\ t >= len

\* Mutant: the early exit after an adjustment is forgotten.
ReachedFullLengthOmitted(t, len) == FALSE

\* `if total >= content.len()` after an adjustment of total
ReachedFullLength(t, len) == t >= len

\* Mutant: the piece count is the plain quotient.
PiecesFloor(len, chunk) == len \div chunk

\* `(content.len() / chunk_size) + 1`
Pieces(len, chunk) == (len \div chunk) + 1

\* Mutant: the quotient is rounded up before the 1 is added.
NewChunkSizeRoundUp(len, chunk) ==
  ((len + Pieces(len, chunk) - 1) \div Pieces(len, chunk)) + 1

\* `(content.len() / pieces) + 1`, with pieces computed from chunk_size
NewChunkSize(len, chunk) == (len \div Pieces(len, chunk)) + 1

\* ------------------------------------------------- the caller's slicing
\* Length of the last slice of `content.chunks(chunk_size)`.
LastSlice(len, chunk) == IF len % chunk = 0 THEN chunk ELSE len % chunk

\* The lengths of the slices of `content.chunks(chunk_size)`, len >= 1.
SliceLengths(len, chunk) ==
  (IF len >= chunk THEN {chunk} ELSE {}) \cup {LastSlice(len, chunk)}

\* `QrCode::new(data)` on a slice of n bytes succeeds at a version <= v.
EncodesWithin(n, v) == ~ProbeTooLong(n) /\ ProbeVersion(n) <= v

\* ------------------------------------------------------------------ state
VARIABLES
  content_len,      \* content.len()
  desired_version,  \* the argument, a u8
  total,            \* the prefix length under test
  pc,               \* "start", "loop", "rebalance", "done"
  outcome,          \* "none", "Ok", "InvalidVersion", "EmptyContent", "Panic"
  ret,              \* the value of Ok(..)
  exit,             \* which return was taken
  probes,           \* calls of QrCode::new so far (saturating)
  probed            \* the prefix lengths probed so far (history)

vars ==
  << content_len, desired_version, total, pc, outcome, ret, exit, probes, probed >>

Init ==
  /\ content_len \in (0..MaxLen) \cup {U16Max}
  /\ desired_version \in 0..MaxVersionArg
  /\ total = 0
  /\ pc = "start"
  /\ outcome = "none"
  /\ ret = 0
  /\ exit = "none"
  /\ probes = 0
  /\ probed = {}

Bump(n) == IF n < MaxProbes THEN n + 1 ELSE n

\* The two entry checks and `let mut total = content.len()`.
Validate ==
  /\ pc = "start"
  /\ IF InvalidVersion(desired_version)
     THEN /\ pc' = "done" /\ outcome' = "InvalidVersion" /\ exit' = "invalid_version"
          /\ total' = total
     ELSE IF content_len = 0
     THEN /\ pc' = "done" /\ outcome' = "EmptyContent" /\ exit' = "empty_content"
          /\ total' = total
     ELSE /\ pc' = "loop" /\ outcome' = outcome /\ exit' = exit
          /\ total' = content_len
  /\ UNCHANGED << content_len, desired_version, ret, probes, probed >>

\* One iteration of the loop whose probe is Ok(qr).
ProbeEncoded ==
  /\ pc = "loop"
  /\ total <= content_len => ~ProbeTooLong(total)
  /\ probes' = Bump(probes)
  /\ probed' = probed \cup {total}
  /\ IF total > content_len
     THEN \* `&content[..total]` is out of range
          /\ pc' = "done" /\ outcome' = "Panic" /\ exit' = "slice_panic"
          /\ UNCHANGED << total, ret >>
     ELSE LET width == ProbeVersion(total) IN
          IF FitsBelow(width, desired_version, total, content_len)
          THEN /\ pc' = "done" /\ outcome' = "Ok" /\ exit' = "first_fit"
               /\ ret' = content_len /\ total' = total
          ELSE IF width = desired_version
          THEN /\ pc' = "rebalance" /\ outcome' = outcome /\ exit' = exit
               /\ ret' = ret /\ total' = total
          ELSE LET t == IF width > desired_version THEN Halve(total) ELSE Grow(total) IN
               /\ total' = t
               /\ IF ReachedFullLength(t, content_len)
                  THEN /\ pc' = "done" /\ outcome' = "Ok" /\ exit' = "early"
                       /\ ret' = content_len
                  ELSE /\ pc' = pc /\ outcome' = outcome /\ exit' = exit
                       /\ ret' = ret
  /\ UNCHANGED << content_len, desired_version >>

\* One iteration of the loop whose probe is Err(QrError::DataTooLong).
ProbeDataTooLong ==
  /\ pc = "loop"
  /\ total <= content_len
  /\ ProbeTooLong(total)
  /\ probes' = Bump(probes)
  /\ probed' = probed \cup {total}
  /\ total' = Halve(total)
  /\ UNCHANGED << content_len, desired_version, pc, outcome, ret, exit >>

\* The code after the loop: chunk_size is the value of `break total`.
Rebalance ==
  /\ pc = "rebalance"
  /\ pc' = "done"
  /\ outcome' = "Ok"
  /\ exit' = "exact"
  /\ ret' = NewChunkSize(content_len, total)
  /\ UNCHANGED << content_len, desired_version, total, probes, probed >>

Next == Validate \/ ProbeEncoded \/ ProbeDataTooLong \/ Rebalance

Spec == Init /\ [][Next]_vars

\* ----------------------------------------------------------------- claims
\* The call has returned (or panicked).
Done == pc = "done"

\* The arguments are valid: a version in 1..40 and a non-empty content.
ValidInput == desired_version \in 1..40 /\ content_len >= 1

\* C1: for every non-empty content and every desired_version in 1..40 the
\* call returns Ok(chunk_size), without panicking, with
\* 0 < chunk_size <= content.len().
C1_ChunkInRange ==
  /\ outcome # "Panic"
  /\ (Done /\ ValidInput) => (outcome = "Ok" /\ 0 < ret /\ ret <= content_len)

\* C1 witness: a valid call that ended on an exact match and splits the
\* content.
C1_Witness ==
  Done /\ ValidInput /\ exit = "exact" /\ outcome = "Ok" /\ ret < content_len

\* C2: the search loop terminates.  An iteration is determined by total
\* (content and desired_version are fixed), so the loop runs forever exactly
\* when it probes a prefix length a second time: no prefix length about to be
\* probed was probed before, and the number of probes stays below MaxProbes.
C2_LoopTerminates ==
  /\ pc = "loop" => total \notin probed
  /\ probes < MaxProbes

\* C2 witness: a call that returned after the search went down and up for
\* 20 probes or more.
C2_Witness == Done /\ outcome = "Ok" /\ exit = "exact" /\ probes >= 20

\* C3: every slice obtained by cutting the content into consecutive slices
\* of the returned chunk size encodes at a version that does not exceed
\* desired_version.
C3_SlicesWithinVersion ==
  (Done /\ outcome = "Ok") =>
    \A n \in SliceLengths(content_len, ret) : EncodesWithin(n, desired_version)

\* C4: a content that fits in a version 1 code is returned whole, for every
\* desired_version in 1..40.
C4_SmallContentUnsplit ==
  (Done /\ ValidInput /\ EncodesWithin(content_len, 1)) =>
    (outcome = "Ok" /\ ret = content_len)

\* C5: an invalid version is rejected with the invalid-version error, also
\* for an empty content, an empty content with a valid version is rejected
\* with the empty-content error, and in both cases no probe is made.
C5_RejectedBeforeProbing ==
  /\ (desired_version \notin 1..40 \/ content_len = 0) => probes = 0
  /\ (Done /\ desired_version \notin 1..40) => outcome = "InvalidVersion"
  /\ (Done /\ desired_version \in 1..40 /\ content_len = 0) =>
       outcome = "EmptyContent"

\* C5 witness: an invalid version with an empty content has been rejected.
C5_Witness ==
  Done /\ content_len = 0 /\ desired_version = 0 /\ outcome = "InvalidVersion"

\* C6: when the early exit after an adjustment of total returns
\* content.len(), the whole content encodes at a version <= desired_version.
C6_EarlyExitFits ==
  (Done /\ exit = "early") => EncodesWithin(content_len, desired_version)

\* C7: after an exact match at prefix length total, the last slice under the
\* returned chunk size is at least as long as the last slice under total.
C7_LastSliceNotShorter ==
  (Done /\ exit = "exact") =>
    LastSlice(content_len, ret) >= LastSlice(content_len, total)

\* C8: if the probe of the full buffer reports a version below
\* desired_version, the call returns content.len() after exactly one probe
\* with total untouched; and that exit is taken on the first probe only,
\* every later probe having total < content.len().
C8_FirstProbeExit ==
  /\ (ValidInput /\ probes >= 1 /\ ~ProbeTooLong(content_len)
        /\ ProbeVersion(content_len) < desired_version) =>
       (Done /\ exit = "first_fit" /\ outcome = "Ok" /\ ret = content_len
          /\ probes = 1 /\ total = content_len)
  /\ exit = "first_fit" => (probes = 1 /\ total = content_len)
  /\ (pc = "loop" /\ probes >= 1) => total < content_len

\* C8 witness: a call that returned a content of several bytes whole on its
\* first probe.
C8_Witness ==
  Done /\ exit = "first_fit" /\ probes = 1 /\ content_len > 1

\* C9: after an exact match at prefix length total, 1 <= total <= len, the
\* value returned is len / (len / total + 1) + 1, which never exceeds total,
\* so a prefix of that length encodes at a version <= desired_version.
C9_RebalancedValue ==
  (Done /\ exit = "exact") =>
    /\ 1 <= total /\ total <= content_len
    /\ ret = (content_len \div ((content_len \div total) + 1)) + 1
    /\ ret <= total
    /\ EncodesWithin(ret, desired_version)

\* C9 witness: an exact match whose rebalanced value is strictly below
\* total.
C9_Witness == Done /\ exit = "exact" /\ 1 < ret /\ ret < total

\* C10: at every probe 1 <= total <= content.len(): the slice is in range,
\* total never reaches 0, and the rebalance step does not divide by zero.
C10_TotalInRange ==
  /\ pc \in {"loop", "rebalance"} => (1 <= total /\ total <= content_len)
  /\ exit # "slice_panic"

\* C10 witness: a probe is about to be made after total was halved and grown
\* again.
C10_Witness ==
  pc = "loop" /\ probes >= 2 /\ 2 * total > content_len /\ total < content_len

====
